---- MODULE Spec2Model ----
(***************************************************************************)
(* HydroCredToken (blockchain/contracts/HydroCredToken.sol): the role      *)
(* hierarchy, the certification-gated mint, transfer and retirement of     *)
(* credits, together with the entry points the contract inherits from      *)
(* OpenZeppelin's AccessControl, Pausable and ERC721.                      *)
(*                                                                         *)
(* One action is one external call.  A call that reverts leaves no trace   *)
(* (the EVM rolls every write back), so a failing call is a stuttering     *)
(* step; the reason it fails is computed by the ...Err operator of the     *)
(* entry point, which evaluates the code's checks in the code's order and  *)
(* yields "ok" when none of them fires.                                    *)
(*                                                                         *)
(* mintWithCertification hands every credit to the recipient through       *)
(* _safeMint, which calls onERC721Received when the recipient is a         *)
(* contract.  That mint is therefore modelled step by step: `frame` holds  *)
(* the position of the loop while the recipient's callback runs, and the   *)
(* callback may call back into the contract, accept, or revert the whole   *)
(* transaction (every variable returns to frame.saved).                    *)
(***************************************************************************)
EXTENDS Integers, FiniteSets, Sequences, TLC

\* ------------------------------------------------------------------ bounds
MaxTokenId == 2

\* the ceiling of one batch, "amount <= 1000"
MintCeiling == 1000

\* ---------------------------------------------------------------- universe
Zero == "0x0"
MainAdmin == "A"
Account == {"A", "E", "P", "K"}
\* accounts that have code: they receive onERC721Received and can act inside it
Contract == {"K"}
\* what ECDSA.recover yields for a well-formed signature over another message:
\* an address nobody chose, which no call of the model names
Stranger == "0xS"
Address == Account \cup {Zero}

TokenId == 1..MaxTokenId
\* the values block.timestamp and the jurisdiction ids are drawn from
Times == {1700000000}
\* the values block.timestamp takes in the retirements of SpecRetire
RetireTimes == {1700000000, 1700000060}
JurisdictionId == {7}
\* two distinct ids, for the appointments of SpecJurisdiction
Jurisdictions == {7, 8}
Hash == {"h1", "h2"}
ZeroHash == "0x00"
\* what /submit-request stores as certificationHash: the sha256 digest as 64
\* hex digits, without the 0x prefix
HexDigest == {"d1", "d2"}
\* the HTTP requests the backend serves at the same time
MaxCalls == 2
Call == 1..MaxCalls

DEFAULT_ADMIN_ROLE == "DEFAULT_ADMIN_ROLE"
MAIN_ADMIN_ROLE == "MAIN_ADMIN_ROLE"
COUNTRY_ADMIN_ROLE == "COUNTRY_ADMIN_ROLE"
STATE_ADMIN_ROLE == "STATE_ADMIN_ROLE"
CITY_ADMIN_ROLE == "CITY_ADMIN_ROLE"
PRODUCER_ROLE == "PRODUCER_ROLE"
BUYER_ROLE == "BUYER_ROLE"
AUDITOR_ROLE == "AUDITOR_ROLE"
Role == {DEFAULT_ADMIN_ROLE, MAIN_ADMIN_ROLE, COUNTRY_ADMIN_ROLE, STATE_ADMIN_ROLE,
         CITY_ADMIN_ROLE, PRODUCER_ROLE, BUYER_ROLE, AUDITOR_ROLE}

VARIABLES
    roles,                  \* AccessControl._roles: role -> set of members
    isCountryAdmin, countryAdminCountryId,
    isStateAdmin, stateAdminStateId,
    isCityAdmin, cityAdminCityId,
    isProducer, isBuyer, isAuditor,
    certificationHashUsed,  \* the hashes mapped to true
    tokenCertifications,
    isRetired, retiredBy, retiredAt,
    nextTokenId,            \* _nextTokenId
    owners,                 \* ERC721._owners, Zero for a token that does not exist
    ownedTokens,            \* ERC721Enumerable._ownedTokens: owner -> its ids by index
    tokenApprovals,         \* ERC721._tokenApprovals
    operatorApprovals,      \* ERC721._operatorApprovals, as pairs <<owner, operator>>
    paused,                 \* Pausable._paused
    log,                    \* the appointment and registration events emitted
    CreditsIssued,          \* the CreditsIssued events emitted
    frame,                  \* the mint whose receiver callback is running
    users,                  \* the User collection, by walletAddress
    productionRequests,     \* the ProductionRequest collection, by certificationHash
    transactions,           \* the Transaction collection (the mints logged)
    handlers                \* the HTTP requests being served, each at its await

roleVars == <<roles, isCountryAdmin, countryAdminCountryId, isStateAdmin, stateAdminStateId,
              isCityAdmin, cityAdminCityId, isProducer, isBuyer, isAuditor, log>>
mintVars == <<certificationHashUsed, tokenCertifications, nextTokenId, CreditsIssued>>
retireVars == <<isRetired, retiredBy, retiredAt>>
ercVars == <<owners, ownedTokens, tokenApprovals, operatorApprovals>>
\* the backend's database (the User, ProductionRequest and Transaction
\* collections) and the requests it is serving
backendVars == <<users, productionRequests, transactions, handlers>>
vars == <<roleVars, mintVars, retireVars, ercVars, paused, frame, backendVars>>

\* ------------------------------------------------------------------ helpers
hasRole(role, account) == account \in roles[role]

NoCertification ==
    [producer |-> Zero, certifier |-> Zero, timestamp |-> 0, certificationHash |-> ZeroHash]

\* no document of the collection
NoUser == [role |-> "none", isApproved |-> FALSE, cityId |-> 0]

NoRequest ==
    [status |-> "none", producerAddress |-> Zero, amount |-> 0, tokenIds |-> <<>>]

\* a handler slot that serves no request
Idle == [pc |-> "idle"]

NoFrame ==
    [active |-> FALSE, to |-> Zero, amount |-> 0, certificationHash |-> ZeroHash,
     certifier |-> Zero, timestamp |-> 0, fromId |-> 0, toId |-> 0, i |-> 0, saved |-> <<>>]

\* every storage variable, as the EVM restores it when a transaction reverts
Snapshot ==
    [roles |-> roles,
     isCountryAdmin |-> isCountryAdmin, countryAdminCountryId |-> countryAdminCountryId,
     isStateAdmin |-> isStateAdmin, stateAdminStateId |-> stateAdminStateId,
     isCityAdmin |-> isCityAdmin, cityAdminCityId |-> cityAdminCityId,
     isProducer |-> isProducer, isBuyer |-> isBuyer, isAuditor |-> isAuditor,
     certificationHashUsed |-> certificationHashUsed,
     tokenCertifications |-> tokenCertifications,
     isRetired |-> isRetired, retiredBy |-> retiredBy, retiredAt |-> retiredAt,
     nextTokenId |-> nextTokenId, owners |-> owners, ownedTokens |-> ownedTokens,
     tokenApprovals |-> tokenApprovals, operatorApprovals |-> operatorApprovals,
     paused |-> paused, log |-> log, CreditsIssued |-> CreditsIssued]

Init ==
    /\ roles = [r \in Role |->
                  IF r \in {DEFAULT_ADMIN_ROLE, MAIN_ADMIN_ROLE} THEN {MainAdmin} ELSE {}]
    /\ isCountryAdmin = {} /\ countryAdminCountryId = [a \in Address |-> 0]
    /\ isStateAdmin = {} /\ stateAdminStateId = [a \in Address |-> 0]
    /\ isCityAdmin = {} /\ cityAdminCityId = [a \in Address |-> 0]
    /\ isProducer = {} /\ isBuyer = {} /\ isAuditor = {}
    /\ certificationHashUsed = {}
    /\ tokenCertifications = [t \in TokenId |-> NoCertification]
    /\ isRetired = {} /\ retiredBy = [t \in TokenId |-> Zero] /\ retiredAt = [t \in TokenId |-> 0]
    /\ nextTokenId = 1
    /\ owners = [t \in TokenId |-> Zero]
    /\ ownedTokens = [a \in Address |-> <<>>]
    /\ tokenApprovals = [t \in TokenId |-> Zero]
    /\ operatorApprovals = {}
    /\ paused = FALSE
    /\ log = {}
    /\ CreditsIssued = {}
    /\ frame = NoFrame
    /\ users = [a \in Account |-> NoUser]
    /\ productionRequests = [d \in HexDigest |-> NoRequest]
    /\ transactions = {}
    /\ handlers = [c \in Call |-> Idle]

\* ------------------------------------------------------- appointment chain
Event(ev, who, n, by) == [ev |-> ev, who |-> who, n |-> n, by |-> by]

\* mutant: the hierarchy is read as inclusive, the main admin passes every check
onlyRole_OrMainAdmin(role, sender) ==
    IF hasRole(role, sender) \/ hasRole(MAIN_ADMIN_ROLE, sender) THEN "ok"
    ELSE "InsufficientCapability"

\* modifier onlyRole(role): AccessControlUnauthorizedAccount
onlyRole(role, sender) == IF hasRole(role, sender) THEN "ok" ELSE "InsufficientCapability"

\* mutant: the already-held require is missing
GrantErr_NoHeldCheck(required, sender, account, flag) ==
    IF onlyRole(required, sender) # "ok" THEN onlyRole(required, sender)
    ELSE IF account = Zero THEN "ZeroIdentity"
    ELSE "ok"

\* the checks shared by the appoint/register entry points:
\* onlyRole, then the zero-address require, then the already-held require
GrantErr(required, sender, account, flag) ==
    IF onlyRole(required, sender) # "ok" THEN onlyRole(required, sender)
    ELSE IF account = Zero THEN "ZeroIdentity"
    ELSE IF account \in flag THEN "AlreadyHeld"
    ELSE "ok"

appointCountryAdminErr(sender, admin) ==
    GrantErr(MAIN_ADMIN_ROLE, sender, admin, isCountryAdmin)

appointCountryAdmin(sender, admin, countryId) ==
    IF appointCountryAdminErr(sender, admin) = "ok"
    THEN /\ isCountryAdmin' = isCountryAdmin \cup {admin}
         /\ countryAdminCountryId' = [countryAdminCountryId EXCEPT ![admin] = countryId]
         /\ roles' = [roles EXCEPT ![COUNTRY_ADMIN_ROLE] = @ \cup {admin}]
         /\ log' = log \cup {Event("CountryAdminAppointed", admin, countryId, sender)}
         /\ UNCHANGED <<isStateAdmin, stateAdminStateId, isCityAdmin, cityAdminCityId,
                        isProducer, isBuyer, isAuditor>>
         /\ UNCHANGED <<mintVars, retireVars, ercVars, paused, frame>>
    ELSE UNCHANGED vars

appointStateAdminErr(sender, admin) ==
    GrantErr(COUNTRY_ADMIN_ROLE, sender, admin, isStateAdmin)

appointStateAdmin(sender, admin, stateId) ==
    IF appointStateAdminErr(sender, admin) = "ok"
    THEN /\ isStateAdmin' = isStateAdmin \cup {admin}
         /\ stateAdminStateId' = [stateAdminStateId EXCEPT ![admin] = stateId]
         /\ roles' = [roles EXCEPT ![STATE_ADMIN_ROLE] = @ \cup {admin}]
         /\ log' = log \cup {Event("StateAdminAppointed", admin, stateId, sender)}
         /\ UNCHANGED <<isCountryAdmin, countryAdminCountryId, isCityAdmin, cityAdminCityId,
                        isProducer, isBuyer, isAuditor>>
         /\ UNCHANGED <<mintVars, retireVars, ercVars, paused, frame>>
    ELSE UNCHANGED vars

appointCityAdminErr(sender, admin) ==
    GrantErr(STATE_ADMIN_ROLE, sender, admin, isCityAdmin)

appointCityAdmin(sender, admin, cityId) ==
    IF appointCityAdminErr(sender, admin) = "ok"
    THEN /\ isCityAdmin' = isCityAdmin \cup {admin}
         /\ cityAdminCityId' = [cityAdminCityId EXCEPT ![admin] = cityId]
         /\ roles' = [roles EXCEPT ![CITY_ADMIN_ROLE] = @ \cup {admin}]
         /\ log' = log \cup {Event("CityAdminAppointed", admin, cityId, sender)}
         /\ UNCHANGED <<isCountryAdmin, countryAdminCountryId, isStateAdmin, stateAdminStateId,
                        isProducer, isBuyer, isAuditor>>
         /\ UNCHANGED <<mintVars, retireVars, ercVars, paused, frame>>
    ELSE UNCHANGED vars

registerProducerErr(sender, producer) ==
    GrantErr(CITY_ADMIN_ROLE, sender, producer, isProducer)

registerProducer(sender, producer) ==
    IF registerProducerErr(sender, producer) = "ok"
    THEN /\ isProducer' = isProducer \cup {producer}
         /\ roles' = [roles EXCEPT ![PRODUCER_ROLE] = @ \cup {producer}]
         /\ log' = log \cup {Event("ProducerRegistered", producer, 0, sender)}
         /\ UNCHANGED <<isCountryAdmin, countryAdminCountryId, isStateAdmin, stateAdminStateId,
                        isCityAdmin, cityAdminCityId, isBuyer, isAuditor>>
         /\ UNCHANGED <<mintVars, retireVars, ercVars, paused, frame>>
    ELSE UNCHANGED vars

\* no modifier and no zero-address require: the sender registers itself
registerBuyerErr(sender) ==
    IF sender \in isBuyer THEN "AlreadyHeld" ELSE "ok"

registerBuyer(sender) ==
    IF registerBuyerErr(sender) = "ok"
    THEN /\ isBuyer' = isBuyer \cup {sender}
         /\ roles' = [roles EXCEPT ![BUYER_ROLE] = @ \cup {sender}]
         /\ log' = log \cup {Event("BuyerRegistered", sender, 0, sender)}
         /\ UNCHANGED <<isCountryAdmin, countryAdminCountryId, isStateAdmin, stateAdminStateId,
                        isCityAdmin, cityAdminCityId, isProducer, isAuditor>>
         /\ UNCHANGED <<mintVars, retireVars, ercVars, paused, frame>>
    ELSE UNCHANGED vars

registerAuditorErr(sender, auditor) ==
    GrantErr(MAIN_ADMIN_ROLE, sender, auditor, isAuditor)

registerAuditor(sender, auditor) ==
    IF registerAuditorErr(sender, auditor) = "ok"
    THEN /\ isAuditor' = isAuditor \cup {auditor}
         /\ roles' = [roles EXCEPT ![AUDITOR_ROLE] = @ \cup {auditor}]
         /\ log' = log \cup {Event("AuditorRegistered", auditor, 0, sender)}
         /\ UNCHANGED <<isCountryAdmin, countryAdminCountryId, isStateAdmin, stateAdminStateId,
                        isCityAdmin, cityAdminCityId, isProducer, isBuyer>>
         /\ UNCHANGED <<mintVars, retireVars, ercVars, paused, frame>>
    ELSE UNCHANGED vars

\* ------------------------------------- inherited from AccessControl (public)
\* getRoleAdmin: the contract never calls _setRoleAdmin, so the admin role of
\* every role is the default 0x00, DEFAULT_ADMIN_ROLE, which the constructor
\* grants to mainAdmin
getRoleAdmin(role) == DEFAULT_ADMIN_ROLE

rolesOnly == <<isCountryAdmin, countryAdminCountryId, isStateAdmin, stateAdminStateId,
               isCityAdmin, cityAdminCityId, isProducer, isBuyer, isAuditor, log>>

grantRoleErr(sender, role) == onlyRole(getRoleAdmin(role), sender)

\* grantRole(role, account): _grantRole, a no-op when the role is already held
grantRole(sender, role, account) ==
    IF grantRoleErr(sender, role) = "ok"
    THEN /\ roles' = [roles EXCEPT ![role] = @ \cup {account}]
         /\ UNCHANGED <<rolesOnly, mintVars, retireVars, ercVars, paused, frame>>
    ELSE UNCHANGED vars

revokeRoleErr(sender, role) == onlyRole(getRoleAdmin(role), sender)

\* revokeRole(role, account): _revokeRole, a no-op when the role is not held
revokeRole(sender, role, account) ==
    IF revokeRoleErr(sender, role) = "ok"
    THEN /\ roles' = [roles EXCEPT ![role] = @ \ {account}]
         /\ UNCHANGED <<rolesOnly, mintVars, retireVars, ercVars, paused, frame>>
    ELSE UNCHANGED vars

renounceRoleErr(sender, callerConfirmation) ==
    IF callerConfirmation # sender THEN "AccessControlBadConfirmation" ELSE "ok"

renounceRole(sender, role, callerConfirmation) ==
    IF renounceRoleErr(sender, callerConfirmation) = "ok"
    THEN /\ roles' = [roles EXCEPT ![role] = @ \ {callerConfirmation}]
         /\ UNCHANGED <<rolesOnly, mintVars, retireVars, ercVars, paused, frame>>
    ELSE UNCHANGED vars

\* ------------------------------------------------------------ circuit breaker
\* mutant: pause() without its onlyRole modifier
pauseErr_AnyCaller(sender) == IF paused THEN "Paused" ELSE "ok"

\* pause(): onlyRole(MAIN_ADMIN_ROLE), then _pause() whenNotPaused
pauseErr(sender) ==
    IF onlyRole(MAIN_ADMIN_ROLE, sender) # "ok" THEN onlyRole(MAIN_ADMIN_ROLE, sender)
    ELSE IF paused THEN "Paused"
    ELSE "ok"

pause(sender) ==
    IF pauseErr(sender) = "ok"
    THEN paused' = TRUE /\ UNCHANGED <<roleVars, mintVars, retireVars, ercVars, frame>>
    ELSE UNCHANGED vars

\* unpause(): onlyRole(MAIN_ADMIN_ROLE), then _unpause() whenPaused
unpauseErr(sender) ==
    IF onlyRole(MAIN_ADMIN_ROLE, sender) # "ok" THEN onlyRole(MAIN_ADMIN_ROLE, sender)
    ELSE IF ~paused THEN "ExpectedPause"
    ELSE "ok"

unpause(sender) ==
    IF unpauseErr(sender) = "ok"
    THEN paused' = FALSE /\ UNCHANGED <<roleVars, mintVars, retireVars, ercVars, frame>>
    ELSE UNCHANGED vars

\* ------------------------------------------------------- inherited from ERC721
\* _ownerOf: a mapping read, the zero address for an id never written
ownerOf(tokenId) == IF tokenId \in TokenId THEN owners[tokenId] ELSE Zero

\* ERC721._isAuthorized(owner, spender, tokenId)
isAuthorized(owner, spender, tokenId) ==
    /\ spender # Zero
    /\ \/ owner = spender
       \/ <<owner, spender>> \in operatorApprovals
       \/ tokenApprovals[tokenId] = spender

\* mutant: the override of _update lacks the require of line 245
updateErr_NoRetiredCheck(tokenId, auth) ==
    IF paused THEN "Paused"
    ELSE IF auth # Zero /\ ~isAuthorized(ownerOf(tokenId), auth, tokenId)
         THEN IF ownerOf(tokenId) = Zero THEN "ERC721NonexistentToken"
              ELSE "ERC721InsufficientApproval"
    ELSE "ok"

\* mutant: the override of _update lacks the whenNotPaused modifier
updateErr_NoPauseCheck(tokenId, auth) ==
    IF ownerOf(tokenId) # Zero /\ tokenId \in isRetired THEN "RetiredCreditTransfer"
    ELSE IF auth # Zero /\ ~isAuthorized(ownerOf(tokenId), auth, tokenId)
         THEN IF ownerOf(tokenId) = Zero THEN "ERC721NonexistentToken"
              ELSE "ERC721InsufficientApproval"
    ELSE "ok"

\* HydroCredToken._update as transferFrom reaches it: whenNotPaused, the
\* retired require, then ERC721._update's _checkAuthorized
updateErr(tokenId, auth) ==
    IF paused THEN "Paused"
    ELSE IF ownerOf(tokenId) # Zero /\ tokenId \in isRetired THEN "RetiredCreditTransfer"
    ELSE IF auth # Zero /\ ~isAuthorized(ownerOf(tokenId), auth, tokenId)
         THEN IF ownerOf(tokenId) = Zero THEN "ERC721NonexistentToken"
              ELSE "ERC721InsufficientApproval"
    ELSE "ok"

\* ERC721Enumerable._removeTokenFromOwnerEnumeration: the owner's last id takes
\* the slot of the id removed, and the last slot is deleted
removeTokenFromOwnerEnumeration(list, tokenId) ==
    LET last == Len(list)
        index == CHOOSE i \in 1..last : list[i] = tokenId
    IN  [i \in 1..(last - 1) |-> IF i = index THEN list[last] ELSE list[i]]

\* ERC721Enumerable._addTokenToOwnerEnumeration: the id goes to the slot after
\* the owner's last
addTokenToOwnerEnumeration(list, tokenId) == Append(list, tokenId)

\* ERC721Enumerable._update on the owner lists, for a move of tokenId from
\* `from` (Zero for a mint) to a non-zero `to`
enumerate(from, to, tokenId) ==
    IF from = to THEN ownedTokens
    ELSE [a \in Address |->
            IF a = to THEN addTokenToOwnerEnumeration(ownedTokens[a], tokenId)
            ELSE IF a = from /\ from # Zero
                 THEN removeTokenFromOwnerEnumeration(ownedTokens[a], tokenId)
            ELSE ownedTokens[a]]

\* transferFrom(from, to, tokenId); safeTransferFrom makes the same checks and
\* writes, and then lets a receiving contract revert the call
transferFromErr(sender, from, to, tokenId) ==
    IF to = Zero THEN "ZeroIdentity"
    ELSE IF updateErr(tokenId, sender) # "ok" THEN updateErr(tokenId, sender)
    ELSE IF ownerOf(tokenId) # from THEN "ERC721IncorrectOwner"
    ELSE "ok"

transferFrom(sender, from, to, tokenId) ==
    IF transferFromErr(sender, from, to, tokenId) = "ok"
    THEN /\ owners' = [owners EXCEPT ![tokenId] = to]
         /\ ownedTokens' = enumerate(from, to, tokenId)
         /\ tokenApprovals' = [tokenApprovals EXCEPT ![tokenId] = Zero]
         /\ UNCHANGED <<operatorApprovals, roleVars, mintVars, retireVars, paused, frame>>
    ELSE UNCHANGED vars

approveErr(sender, tokenId) ==
    IF ownerOf(tokenId) = Zero THEN "ERC721NonexistentToken"
    ELSE IF ownerOf(tokenId) # sender /\ <<ownerOf(tokenId), sender>> \notin operatorApprovals
         THEN "ERC721InvalidApprover"
    ELSE "ok"

approve(sender, to, tokenId) ==
    IF approveErr(sender, tokenId) = "ok"
    THEN /\ tokenApprovals' = [tokenApprovals EXCEPT ![tokenId] = to]
         /\ UNCHANGED <<owners, ownedTokens, operatorApprovals, roleVars, mintVars, retireVars,
                        paused, frame>>
    ELSE UNCHANGED vars

setApprovalForAllErr(operator) ==
    IF operator = Zero THEN "ERC721InvalidOperator" ELSE "ok"

setApprovalForAll(sender, operator, approved) ==
    IF setApprovalForAllErr(operator) = "ok"
    THEN /\ operatorApprovals' = IF approved THEN operatorApprovals \cup {<<sender, operator>>}
                                 ELSE operatorApprovals \ {<<sender, operator>>}
         /\ UNCHANGED <<owners, ownedTokens, tokenApprovals, roleVars, mintVars, retireVars,
                        paused, frame>>
    ELSE UNCHANGED vars

\* ------------------------------------------------------------------- retire
\* mutant: the require of line 225 is missing
retireErr_NoRetiredCheck(sender, tokenId) ==
    IF ownerOf(tokenId) # sender THEN "NotOwner" ELSE "ok"

retireErr(sender, tokenId) ==
    IF ownerOf(tokenId) # sender THEN "NotOwner"
    ELSE IF tokenId \in isRetired THEN "AlreadyRetired"
    ELSE "ok"

\* timestamp is block.timestamp
retire(sender, tokenId, timestamp) ==
    IF retireErr(sender, tokenId) = "ok"
    THEN /\ isRetired' = isRetired \cup {tokenId}
         /\ retiredBy' = [retiredBy EXCEPT ![tokenId] = sender]
         /\ retiredAt' = [retiredAt EXCEPT ![tokenId] = timestamp]
         /\ UNCHANGED <<roleVars, mintVars, ercVars, paused, frame>>
    ELSE UNCHANGED vars

\* ------------------------------------------------------------ tokensOfOwner
\* the array of tokenOfOwnerByIndex(owner, i) for i < balanceOf(owner)
tokensOfOwner(owner) == ownedTokens[owner]

\* ------------------------------------------------ certifier signature (ECDSA)
\* abi.encodePacked(address, uint256, bytes32): every value in its own width,
\* 20 + 32 + 32 bytes
encodePacked(to, amount, certificationHash) ==
    <<<<20, to>>, <<32, amount>>, <<32, certificationHash>>>>

\* AbiCoder.encode(['address', 'uint256', 'bytes32'], ...): every value padded
\* to a word of 32 bytes, 96 bytes
abiEncode(to, amount, certificationHash) ==
    <<<<32, to>>, <<32, amount>>, <<32, certificationHash>>>>

\* keccak256: no two byte strings share a digest
keccak256(bytes) == <<"keccak256", bytes>>

\* keccak256 over abi.encodePacked(address, uint256, bytes32): three fixed-width
\* values, so the digest determines the triple (no two triples collide)
keccakPacked(to, amount, certificationHash) ==
    keccak256(encodePacked(to, amount, certificationHash))

\* MessageHashUtils.toEthSignedMessageHash
toEthSignedMessageHash(hash) == <<"EthereumSignedMessage32", hash>>

\* A signature is what the holder of an account's key produced over the
\* personal-sign digest of one (recipient, amount, hash) triple, or bytes that
\* are no signature at all.
Sign(signer, to, amount, certificationHash) ==
    [wellFormed |-> TRUE, signer |-> signer, payload |-> "encodePacked",
     to |-> to, amount |-> amount, certificationHash |-> certificationHash]

\* the same, made over the payload the backend verifier reconstructs
SignEncoded(signer, to, amount, certificationHash) ==
    [wellFormed |-> TRUE, signer |-> signer, payload |-> "encode",
     to |-> to, amount |-> amount, certificationHash |-> certificationHash]

Malformed ==
    [wellFormed |-> FALSE, signer |-> Zero, payload |-> "encodePacked",
     to |-> Zero, amount |-> 0, certificationHash |-> ZeroHash]

SignedDigest(signature) ==
    toEthSignedMessageHash(
        keccak256(IF signature.payload = "encodePacked"
                  THEN encodePacked(signature.to, signature.amount,
                                    signature.certificationHash)
                  ELSE abiEncode(signature.to, signature.amount,
                                 signature.certificationHash)))

\* ECDSA.recover: reverts on bytes that are no signature (Zero stands for the
\* revert); yields the signer for the digest that was signed and an unrelated
\* address for any other digest
recover(digest, signature) ==
    IF ~signature.wellFormed THEN Zero
    ELSE IF SignedDigest(signature) = digest THEN signature.signer
    ELSE Stranger

\* line 95
messageHash(to, amount, certificationHash) == keccakPacked(to, amount, certificationHash)

\* mutant: the signer is taken from the signature alone, whatever triple the
\* call presents
certifierOf_Unbound(to, amount, certificationHash, certifierSignature) ==
    IF certifierSignature.wellFormed THEN certifierSignature.signer ELSE Zero

\* lines 95-97
certifierOf(to, amount, certificationHash, certifierSignature) ==
    recover(toEthSignedMessageHash(messageHash(to, amount, certificationHash)),
            certifierSignature)

\* ------------------------------------------------------ mintWithCertification
\* mutant: the require of line 90 has no ceiling
amountOk_NoCeiling(amount) == amount > 0

\* line 90
amountOk(amount) == amount > 0 /\ amount <= MintCeiling

\* _safeMint(to, tokenId) up to the receiver callback: _mint -> _update with
\* auth = 0 (whenNotPaused, the retired require when the id is already owned),
\* then ERC721InvalidSender when the id was already owned
safeMintErr(tokenId) ==
    IF updateErr(tokenId, Zero) # "ok" THEN updateErr(tokenId, Zero)
    ELSE IF ownerOf(tokenId) # Zero THEN "ERC721InvalidSender"
    ELSE "ok"

\* mutant: the require of line 92 is missing
mintWithCertificationErr_NoHashCheck(to, amount, certificationHash, certifierSignature) ==
    IF paused THEN "Paused"
    ELSE IF to = Zero THEN "ZeroIdentity"
    ELSE IF ~amountOk(amount) THEN "InvalidAmount"
    ELSE IF to \notin isProducer THEN "UnknownRecipient"
    ELSE IF certifierOf(to, amount, certificationHash, certifierSignature) = Zero
         THEN "InvalidCertifierSignature"
    ELSE IF ~hasRole(CITY_ADMIN_ROLE,
                     certifierOf(to, amount, certificationHash, certifierSignature))
         THEN "InvalidCertifierSignature"
    ELSE safeMintErr(nextTokenId)

\* mutant: line 99 reads the isCityAdmin flag instead of the role
mintWithCertificationErr_FlagCheck(to, amount, certificationHash, certifierSignature) ==
    IF paused THEN "Paused"
    ELSE IF to = Zero THEN "ZeroIdentity"
    ELSE IF ~amountOk(amount) THEN "InvalidAmount"
    ELSE IF to \notin isProducer THEN "UnknownRecipient"
    ELSE IF certificationHash \in certificationHashUsed THEN "HashReused"
    ELSE IF certifierOf(to, amount, certificationHash, certifierSignature) = Zero
         THEN "InvalidCertifierSignature"
    ELSE IF certifierOf(to, amount, certificationHash, certifierSignature) \notin isCityAdmin
         THEN "InvalidCertifierSignature"
    ELSE safeMintErr(nextTokenId)

\* the modifier and requires of lines 88-99, in order, then the first _safeMint
mintWithCertificationErr(to, amount, certificationHash, certifierSignature) ==
    IF paused THEN "Paused"
    ELSE IF to = Zero THEN "ZeroIdentity"
    ELSE IF ~amountOk(amount) THEN "InvalidAmount"
    ELSE IF to \notin isProducer THEN "UnknownRecipient"
    ELSE IF certificationHash \in certificationHashUsed THEN "HashReused"
    ELSE IF certifierOf(to, amount, certificationHash, certifierSignature) = Zero
         THEN "InvalidCertifierSignature"
    ELSE IF ~hasRole(CITY_ADMIN_ROLE,
                     certifierOf(to, amount, certificationHash, certifierSignature))
         THEN "InvalidCertifierSignature"
    ELSE safeMintErr(nextTokenId)

CertificationData(to, certifier, timestamp, certificationHash) ==
    [producer |-> to, certifier |-> certifier, timestamp |-> timestamp,
     certificationHash |-> certificationHash]

IssuedEvent(to, amount, fromId, toId, certificationHash) ==
    [to |-> to, amount |-> amount, fromId |-> fromId, toId |-> toId,
     certificationHash |-> certificationHash]

\* the whole loop of lines 107-120 for a recipient without code: no callback
MintBatch(to, amount, certificationHash, certifier, timestamp) ==
    LET fromId == nextTokenId
        toId == nextTokenId + amount - 1
    IN  /\ certificationHashUsed' = certificationHashUsed \cup {certificationHash}
        /\ owners' = [t \in TokenId |-> IF t \in fromId..toId THEN to ELSE owners[t]]
        /\ ownedTokens' = [ownedTokens EXCEPT
                              ![to] = @ \o [i \in 1..amount |-> fromId + i - 1]]
        /\ tokenCertifications' =
              [t \in TokenId |->
                 IF t \in fromId..toId
                 THEN CertificationData(to, certifier, timestamp, certificationHash)
                 ELSE tokenCertifications[t]]
        /\ nextTokenId' = nextTokenId + amount
        /\ CreditsIssued' =
              CreditsIssued \cup {IssuedEvent(to, amount, fromId, toId, certificationHash)}
        /\ UNCHANGED <<tokenApprovals, operatorApprovals, roleVars, retireVars, paused, frame>>

\* mutant: the hash is not yet marked when the first credit is handed over
MintEnter_MarkLate(to, amount, certificationHash, certifier, timestamp) ==
    /\ owners' = [owners EXCEPT ![nextTokenId] = to]
    /\ ownedTokens' = enumerate(Zero, to, nextTokenId)
    /\ frame' = [active |-> TRUE, to |-> to, amount |-> amount,
                 certificationHash |-> certificationHash, certifier |-> certifier,
                 timestamp |-> timestamp, fromId |-> nextTokenId,
                 toId |-> nextTokenId + amount - 1, i |-> 0, saved |-> Snapshot]
    /\ UNCHANGED <<certificationHashUsed, tokenCertifications, nextTokenId, CreditsIssued,
                   tokenApprovals, operatorApprovals, roleVars, retireVars, paused>>

\* lines 102-108 for a recipient with code: the hash is marked, the first
\* credit is minted and the recipient's onERC721Received is entered
MintEnter(to, amount, certificationHash, certifier, timestamp) ==
    /\ certificationHashUsed' = certificationHashUsed \cup {certificationHash}
    /\ owners' = [owners EXCEPT ![nextTokenId] = to]
    /\ ownedTokens' = enumerate(Zero, to, nextTokenId)
    /\ frame' = [active |-> TRUE, to |-> to, amount |-> amount,
                 certificationHash |-> certificationHash, certifier |-> certifier,
                 timestamp |-> timestamp, fromId |-> nextTokenId,
                 toId |-> nextTokenId + amount - 1, i |-> 0, saved |-> Snapshot]
    /\ UNCHANGED <<tokenCertifications, nextTokenId, CreditsIssued, tokenApprovals,
                   operatorApprovals, roleVars, retireVars, paused>>

mintWithCertification(to, amount, certificationHash, certifierSignature, timestamp) ==
    IF mintWithCertificationErr(to, amount, certificationHash, certifierSignature) = "ok"
    THEN LET certifier == certifierOf(to, amount, certificationHash, certifierSignature)
         IN  IF to \in Contract
             THEN MintEnter(to, amount, certificationHash, certifier, timestamp)
             ELSE MintBatch(to, amount, certificationHash, certifier, timestamp)
    ELSE UNCHANGED vars

\* mutant: the revert leaves the hash marked at line 102 consumed
Revert_KeepHash(s) ==
    /\ roles' = s.roles
    /\ isCountryAdmin' = s.isCountryAdmin /\ countryAdminCountryId' = s.countryAdminCountryId
    /\ isStateAdmin' = s.isStateAdmin /\ stateAdminStateId' = s.stateAdminStateId
    /\ isCityAdmin' = s.isCityAdmin /\ cityAdminCityId' = s.cityAdminCityId
    /\ isProducer' = s.isProducer /\ isBuyer' = s.isBuyer /\ isAuditor' = s.isAuditor
    /\ UNCHANGED certificationHashUsed
    /\ tokenCertifications' = s.tokenCertifications
    /\ isRetired' = s.isRetired /\ retiredBy' = s.retiredBy /\ retiredAt' = s.retiredAt
    /\ nextTokenId' = s.nextTokenId /\ owners' = s.owners /\ ownedTokens' = s.ownedTokens
    /\ tokenApprovals' = s.tokenApprovals /\ operatorApprovals' = s.operatorApprovals
    /\ paused' = s.paused /\ log' = s.log /\ CreditsIssued' = s.CreditsIssued
    /\ frame' = NoFrame

\* the transaction reverts: every write since it began is undone
Revert(s) ==
    /\ roles' = s.roles
    /\ isCountryAdmin' = s.isCountryAdmin /\ countryAdminCountryId' = s.countryAdminCountryId
    /\ isStateAdmin' = s.isStateAdmin /\ stateAdminStateId' = s.stateAdminStateId
    /\ isCityAdmin' = s.isCityAdmin /\ cityAdminCityId' = s.cityAdminCityId
    /\ isProducer' = s.isProducer /\ isBuyer' = s.isBuyer /\ isAuditor' = s.isAuditor
    /\ certificationHashUsed' = s.certificationHashUsed
    /\ tokenCertifications' = s.tokenCertifications
    /\ isRetired' = s.isRetired /\ retiredBy' = s.retiredBy /\ retiredAt' = s.retiredAt
    /\ nextTokenId' = s.nextTokenId /\ owners' = s.owners /\ ownedTokens' = s.ownedTokens
    /\ tokenApprovals' = s.tokenApprovals /\ operatorApprovals' = s.operatorApprovals
    /\ paused' = s.paused /\ log' = s.log /\ CreditsIssued' = s.CreditsIssued
    /\ frame' = NoFrame

\* onERC721Received returns the magic value: lines 111-119 run for the credit
\* just handed over, and the loop either mints the next credit (entering the
\* callback again) or ends with the CreditsIssued event of line 122
CallbackAccept ==
    /\ frame.active
    /\ IF frame.i + 1 < frame.amount /\ safeMintErr(nextTokenId + 1) # "ok"
       THEN Revert(frame.saved)
       ELSE /\ tokenCertifications' =
                  [tokenCertifications EXCEPT ![nextTokenId] =
                     CertificationData(frame.to, frame.certifier, frame.timestamp,
                                       frame.certificationHash)]
            /\ nextTokenId' = nextTokenId + 1
            /\ IF frame.i + 1 < frame.amount
               THEN /\ owners' = [owners EXCEPT ![nextTokenId + 1] = frame.to]
                    /\ ownedTokens' = enumerate(Zero, frame.to, nextTokenId + 1)
                    /\ frame' = [frame EXCEPT !.i = @ + 1]
                    /\ UNCHANGED CreditsIssued
               ELSE /\ CreditsIssued' =
                          CreditsIssued \cup {IssuedEvent(frame.to, frame.amount, frame.fromId,
                                                          frame.toId, frame.certificationHash)}
                    /\ frame' = NoFrame
                    /\ UNCHANGED <<owners, ownedTokens>>
            /\ UNCHANGED <<certificationHashUsed, tokenApprovals, operatorApprovals,
                           roleVars, retireVars, paused>>

\* onERC721Received reverts or returns another value: ERC721InvalidReceiver
CallbackReject ==
    /\ frame.active
    /\ Revert(frame.saved)

\* --------------------------------------------------------------- the inputs
\* who can be calling: any account between transactions, only code while a
\* receiver callback is running
Senders == IF frame.active THEN Contract ELSE Account

Amounts == {0, 1, 2, MintCeiling, MintCeiling + 1}

\* an amount the token bound leaves room for (an invalid amount always is)
Fits(amount) == ~amountOk(amount) \/ nextTokenId + amount - 1 <= MaxTokenId

\* the signatures the mint calls of Spec present and the claims range over:
\* malformed bytes, two signatures of the main admin A, and the signatures of
\* E (the city admin of the chain) over every recipient, amount and hash
MintSignatures ==
    {Malformed, Sign("A", "P", 1, "h1"), Sign("A", "K", 2, "h2")} \cup
    {Sign("E", to, a, h) : to \in {"P", "K"}, a \in {1, 2}, h \in Hash}
Signatures == MintSignatures

\* a recipient or an amount the requires of lines 89-91 reject
BadMintInputs == {<<Zero, 1>>, <<"A", 1>>, <<"P", 0>>, <<"K", MintCeiling + 1>>}

\* Spec: the certification-gated mint with every input, on top of one
\* appointment chain (A appoints E, who appoints itself down to city admin and
\* registers the producers P, without code, and K, a contract)
Next ==
    \/ \E sender \in Senders, id \in JurisdictionId :
          \/ appointCountryAdmin(sender, "E", id) /\ UNCHANGED backendVars
          \/ appointStateAdmin(sender, "E", id) /\ UNCHANGED backendVars
          \/ appointCityAdmin(sender, "E", id) /\ UNCHANGED backendVars
    \/ \E sender \in Senders, account \in {"P", "K"} : registerProducer(sender, account)
          /\ UNCHANGED backendVars
    \/ \E sender \in Senders : grantRole(sender, CITY_ADMIN_ROLE, "A") /\ UNCHANGED backendVars
    \/ \E sender \in Senders : revokeRole(sender, CITY_ADMIN_ROLE, "E") /\ UNCHANGED backendVars
    \/ \E sender \in Senders : renounceRole(sender, PRODUCER_ROLE, "K") /\ UNCHANGED backendVars
    \/ \E sender \in Senders :
          \/ pause(sender) /\ UNCHANGED backendVars
          \/ unpause(sender) /\ UNCHANGED backendVars
    \/ \E sender \in Senders, tokenId \in TokenId : transferFrom(sender, "K", "P", tokenId)
          /\ UNCHANGED backendVars
    \/ \E to \in {"P", "K"}, amount \in {1, 2}, h \in Hash, sig \in MintSignatures,
          timestamp \in Times :
          Fits(amount) /\ mintWithCertification(to, amount, h, sig, timestamp)
          /\ UNCHANGED backendVars
    \/ \E in \in BadMintInputs, h \in Hash, timestamp \in Times :
          mintWithCertification(in[1], in[2], h, Sign("E", in[1], in[2], h), timestamp)
          /\ UNCHANGED backendVars
    \/ CallbackAccept /\ UNCHANGED backendVars
    \/ CallbackReject /\ UNCHANGED backendVars

Spec == Init /\ [][Next]_vars

\* SpecRoles: the role registry alone, with every sender and the appointment
\* targets Zero, A and E, the registrations of P, and the inherited grantRole,
\* revokeRole and renounceRole on one role each, and the circuit breaker
NextRoles ==
    \/ \E sender \in Account, admin \in {Zero, "A", "E"}, id \in JurisdictionId :
          \/ appointCountryAdmin(sender, admin, id) /\ UNCHANGED backendVars
          \/ appointStateAdmin(sender, admin, id) /\ UNCHANGED backendVars
          \/ appointCityAdmin(sender, admin, id) /\ UNCHANGED backendVars
    \/ \E sender \in Account, account \in {Zero, "P"} :
          \/ registerProducer(sender, account) /\ UNCHANGED backendVars
          \/ registerAuditor(sender, account) /\ UNCHANGED backendVars
    \/ \E sender \in {"P"} : registerBuyer(sender) /\ UNCHANGED backendVars
    \/ \E sender \in Account : grantRole(sender, CITY_ADMIN_ROLE, "K") /\ UNCHANGED backendVars
    \/ \E sender \in {"E"}, id \in JurisdictionId : appointCityAdmin(sender, "K", id)
          /\ UNCHANGED backendVars
    \/ \E sender \in Account : revokeRole(sender, COUNTRY_ADMIN_ROLE, "E") /\ UNCHANGED backendVars
    \/ \E sender \in Account, account \in {"P", "E"} :
          renounceRole(sender, PRODUCER_ROLE, account) /\ UNCHANGED backendVars
    \/ \E sender \in Account :
          \/ pause(sender) /\ UNCHANGED backendVars
          \/ unpause(sender) /\ UNCHANGED backendVars

SpecRoles == Init /\ [][NextRoles]_vars

\* SpecLedger: the credit ledger.  One appointment chain and correctly signed
\* mints to P and K, then transfers, approvals, operator approvals, retirement
\* and the circuit breaker with every sender
NextLedger ==
    \/ \E sender \in Senders \cap {"A", "E"}, id \in JurisdictionId :
          \/ appointCountryAdmin(sender, "E", id) /\ UNCHANGED backendVars
          \/ appointStateAdmin(sender, "E", id) /\ UNCHANGED backendVars
          \/ appointCityAdmin(sender, "E", id) /\ UNCHANGED backendVars
    \/ \E sender \in Senders \cap {"E"}, account \in {"P", "K"} :
          registerProducer(sender, account) /\ UNCHANGED backendVars
    \/ \E to \in {"P", "K"}, amount \in {1, 2}, timestamp \in Times :
          LET h == IF to = "P" THEN "h1" ELSE "h2"
          IN  Fits(amount)
              /\ mintWithCertification(to, amount, h, Sign("E", to, amount, h), timestamp)
              /\ UNCHANGED backendVars
    \/ CallbackAccept /\ UNCHANGED backendVars
    \/ CallbackReject /\ UNCHANGED backendVars
    \/ \E sender \in Senders, from \in {"P", "K", "A"}, to \in {Zero, "A"},
          tokenId \in TokenId :
          transferFrom(sender, from, to, tokenId) /\ UNCHANGED backendVars
    \/ \E sender \in Senders, tokenId \in TokenId : approve(sender, "E", tokenId)
          /\ UNCHANGED backendVars
    \/ \E sender \in Senders \cap {"P", "K"}, operator \in {Zero, "A"}, approved \in BOOLEAN :
          setApprovalForAll(sender, operator, approved) /\ UNCHANGED backendVars
    \/ \E sender \in Senders, tokenId \in TokenId, timestamp \in Times :
          retire(sender, tokenId, timestamp) /\ UNCHANGED backendVars
    \/ \E sender \in Senders :
          \/ pause(sender) /\ UNCHANGED backendVars
          \/ unpause(sender) /\ UNCHANGED backendVars

SpecLedger == Init /\ [][NextLedger]_vars

\* SpecRetire: retirement.  Credits are minted to the producer P, who approves
\* E, makes A its operator and transfers to A; every account tries to retire
\* every id, at one of two block times
NextRetire ==
    \/ \E id \in JurisdictionId :
          \/ appointCountryAdmin("A", "E", id) /\ UNCHANGED backendVars
          \/ appointStateAdmin("E", "E", id) /\ UNCHANGED backendVars
          \/ appointCityAdmin("E", "E", id) /\ UNCHANGED backendVars
    \/ registerProducer("E", "P") /\ UNCHANGED backendVars
    \/ \E amount \in {1, 2}, h \in Hash, timestamp \in Times :
          Fits(amount)
          /\ mintWithCertification("P", amount, h, Sign("E", "P", amount, h), timestamp)
          /\ UNCHANGED backendVars
    \/ \E tokenId \in TokenId : approve("P", "E", tokenId) /\ UNCHANGED backendVars
    \/ setApprovalForAll("P", "A", TRUE) /\ UNCHANGED backendVars
    \/ \E sender \in {"P", "E", "A"}, tokenId \in TokenId :
          transferFrom(sender, "P", "A", tokenId) /\ UNCHANGED backendVars
    \/ \E sender \in Account, tokenId \in 1..(MaxTokenId + 1), timestamp \in RetireTimes :
          retire(sender, tokenId, timestamp) /\ UNCHANGED backendVars

SpecRetire == Init /\ [][NextRetire]_vars

\* SpecMainAdmin: the root of the hierarchy.  The inherited grantRole,
\* revokeRole and renounceRole on MAIN_ADMIN_ROLE with every sender, and what
\* the role gives access to: appointCountryAdmin, registerAuditor, pause, unpause
NextMainAdmin ==
    \/ \E sender \in Account : grantRole(sender, MAIN_ADMIN_ROLE, "E") /\ UNCHANGED backendVars
    \/ \E sender \in Account : revokeRole(sender, MAIN_ADMIN_ROLE, "A") /\ UNCHANGED backendVars
    \/ \E sender \in Account : renounceRole(sender, MAIN_ADMIN_ROLE, sender)
          /\ UNCHANGED backendVars
    \/ \E sender \in Account, admin \in {"E", "P"}, id \in Jurisdictions :
          appointCountryAdmin(sender, admin, id) /\ UNCHANGED backendVars
    \/ \E sender \in Account, auditor \in {"P", "K"} : registerAuditor(sender, auditor)
          /\ UNCHANGED backendVars
    \/ \E sender \in Account :
          \/ pause(sender) /\ UNCHANGED backendVars
          \/ unpause(sender) /\ UNCHANGED backendVars

SpecMainAdmin == Init /\ [][NextMainAdmin]_vars

\* SpecJurisdiction: the appointments of A and E at the three levels with two
\* jurisdiction ids and every sender, and the inherited revokeRole, grantRole
\* and renounceRole on the admin roles E and A hold
NextJurisdiction ==
    \/ \E sender \in Account, admin \in {"A", "E"}, id \in Jurisdictions :
          \/ appointCountryAdmin(sender, admin, id) /\ UNCHANGED backendVars
          \/ appointStateAdmin(sender, admin, id) /\ UNCHANGED backendVars
          \/ appointCityAdmin(sender, admin, id) /\ UNCHANGED backendVars
    \/ \E sender \in Account : revokeRole(sender, COUNTRY_ADMIN_ROLE, "E") /\ UNCHANGED backendVars
    \/ \E sender \in Account : grantRole(sender, COUNTRY_ADMIN_ROLE, "E") /\ UNCHANGED backendVars
    \/ \E sender \in Account : renounceRole(sender, STATE_ADMIN_ROLE, sender)
          /\ UNCHANGED backendVars

SpecJurisdiction == Init /\ [][NextJurisdiction]_vars
\* ================================================================ the backend
chainVars == <<roleVars, mintVars, retireVars, ercVars, paused, frame>>

\* BlockchainService signs every transaction with the one key of PRIVATE_KEY;
\* the deployment modelled is the one whose MAIN_ADMIN_ADDRESS is that key's
\* address
Wallet == MainAdmin

\* --------------------------------------------------------- BlockchainService
\* a value AbiCoder takes for a bytes32: a 0x-prefixed string of 32 bytes
isBytes32(certificationHash) == certificationHash \in Hash

\* verifyCertificationSignature: the digest over AbiCoder.encode, hashMessage,
\* recoverAddress, then hasRole(CITY_ADMIN_ROLE, certifier) read from the
\* contract; whatever throws (the encoder on a value that is no bytes32, the
\* recovery on bytes that are no signature) is answered invalid
verifyCertificationSignature(producerAddress, amount, certificationHash, signature) ==
    IF ~isBytes32(certificationHash) THEN [isValid |-> FALSE, certifier |-> Zero]
    ELSE LET messageHash_ == keccak256(abiEncode(producerAddress, amount, certificationHash))
             certifier == recover(toEthSignedMessageHash(messageHash_), signature)
         IN  IF certifier = Zero THEN [isValid |-> FALSE, certifier |-> Zero]
             ELSE [isValid |-> hasRole(CITY_ADMIN_ROLE, certifier), certifier |-> certifier]

\* ERC721Enumerable.totalSupply: the number of credits minted (none is burned)
totalSupply == Cardinality({t \in TokenId : owners[t] # Zero})

\* Array.from({ length: amount }, (_, i) => fromTokenId + i)
tokenIdsFrom(fromTokenId, amount) == [i \in 1..amount |-> fromTokenId + i - 1]

\* a document of the Transaction collection, with the fields a mint or a role
\* grant fills (the hash, block and dates of the transaction are left out)
TransactionDoc(eventType, to, role, tokenIds, amount, certificationHash, certifier) ==
    [eventType |-> eventType, to |-> to, role |-> role, tokenIds |-> tokenIds,
     amount |-> amount, certificationHash |-> certificationHash, certifier |-> certifier]

RoleGrantDoc(to, role) == TransactionDoc("role_grant", to, role, <<>>, 0, ZeroHash, Zero)

\* getUserRole: the first role of the list the contract reports for the address
getUserRole(userAddress) ==
    IF hasRole(MAIN_ADMIN_ROLE, userAddress) THEN "main_admin"
    ELSE IF hasRole(COUNTRY_ADMIN_ROLE, userAddress) THEN "country_admin"
    ELSE IF hasRole(STATE_ADMIN_ROLE, userAddress) THEN "state_admin"
    ELSE IF hasRole(CITY_ADMIN_ROLE, userAddress) THEN "city_admin"
    ELSE IF hasRole(PRODUCER_ROLE, userAddress) THEN "producer"
    ELSE IF hasRole(BUYER_ROLE, userAddress) THEN "buyer"
    ELSE IF hasRole(AUDITOR_ROLE, userAddress) THEN "auditor"
    ELSE "null"

\* mintWithCertification of the service, entered with its four arguments
serviceMint(c, producerAddress, amount, certificationHash, certifierSignature) ==
    /\ handlers[c] = Idle
    /\ handlers' = [handlers EXCEPT ![c] =
                      [pc |-> "verify", producerAddress |-> producerAddress,
                       amount |-> amount, certificationHash |-> certificationHash,
                       signature |-> certifierSignature, certifier |-> Zero,
                       fromTokenId |-> 0]]
    /\ UNCHANGED <<chainVars, users, productionRequests, transactions>>

\* lines 69-81: the verifier; an invalid signature ends the call with an error
serviceVerify(c) ==
    /\ handlers[c].pc = "verify"
    /\ LET verification ==
               verifyCertificationSignature(handlers[c].producerAddress, handlers[c].amount,
                                            handlers[c].certificationHash,
                                            handlers[c].signature)
       IN  handlers' = [handlers EXCEPT ![c] =
                          IF verification.isValid
                          THEN [@ EXCEPT !.pc = "isUsed",
                                         !.certifier = verification.certifier]
                          ELSE Idle]
    /\ UNCHANGED <<chainVars, users, productionRequests, transactions>>

\* lines 84-90: the read of certificationHashUsed
serviceIsUsed(c) ==
    /\ handlers[c].pc = "isUsed"
    /\ handlers' = [handlers EXCEPT ![c] =
                      IF handlers[c].certificationHash \in certificationHashUsed
                      THEN Idle
                      ELSE [@ EXCEPT !.pc = "totalSupply"]]
    /\ UNCHANGED <<chainVars, users, productionRequests, transactions>>

\* lines 93-95: the read of totalSupply the ids are computed from
serviceTotalSupply(c) ==
    /\ handlers[c].pc = "totalSupply"
    /\ handlers' = [handlers EXCEPT ![c] =
                      [@ EXCEPT !.pc = "send", !.fromTokenId = totalSupply + 1]]
    /\ UNCHANGED <<chainVars, users, productionRequests, transactions>>

\* lines 98-107: the transaction is sent and mined (for a producer without
\* code it is one step); a transaction that would revert throws and the call
\* ends with an error
serviceSend(c, timestamp) ==
    /\ handlers[c].pc = "send"
    /\ handlers[c].producerAddress \notin Contract
    /\ ~frame.active
    /\ IF mintWithCertificationErr(handlers[c].producerAddress, handlers[c].amount,
                                   handlers[c].certificationHash, handlers[c].signature) = "ok"
       THEN /\ mintWithCertification(handlers[c].producerAddress, handlers[c].amount,
                                     handlers[c].certificationHash, handlers[c].signature,
                                     timestamp)
            /\ handlers' = [handlers EXCEPT ![c] = [@ EXCEPT !.pc = "update"]]
       ELSE /\ handlers' = [handlers EXCEPT ![c] = Idle]
            /\ UNCHANGED chainVars
    /\ UNCHANGED <<users, productionRequests, transactions>>

\* lines 109-116: findOneAndUpdate on the request that stores the hash, if one
\* does, whatever its status
serviceUpdate(c) ==
    /\ handlers[c].pc = "update"
    /\ productionRequests' =
          [d \in HexDigest |->
             IF d = handlers[c].certificationHash /\ productionRequests[d] # NoRequest
             THEN [productionRequests[d] EXCEPT
                      !.status = "minted",
                      !.tokenIds = tokenIdsFrom(handlers[c].fromTokenId, handlers[c].amount)]
             ELSE productionRequests[d]]
    /\ handlers' = [handlers EXCEPT ![c] = [@ EXCEPT !.pc = "log"]]
    /\ UNCHANGED <<chainVars, users, transactions>>

\* lines 119-136: the transaction is logged and the call returns its tokenIds
serviceLog(c) ==
    /\ handlers[c].pc = "log"
    /\ transactions' = transactions \cup
          {TransactionDoc("mint", handlers[c].producerAddress, "none",
                          tokenIdsFrom(handlers[c].fromTokenId, handlers[c].amount),
                          handlers[c].amount, handlers[c].certificationHash,
                          handlers[c].certifier)}
    /\ handlers' = [handlers EXCEPT ![c] = Idle]
    /\ UNCHANGED <<chainVars, users, productionRequests>>

\* ------------------------------------------------------------- auth routes
\* POST /register: a producer or a buyer; a buyer is approved at once
register(walletAddress, role) ==
    IF users[walletAddress] = NoUser /\ role \in {"producer", "buyer"}
    THEN /\ users' = [users EXCEPT ![walletAddress] =
                        [role |-> role, isApproved |-> (role = "buyer"), cityId |-> 0]]
         /\ UNCHANGED <<chainVars, productionRequests, transactions, handlers>>
    ELSE UNCHANGED vars

\* POST /login by the holder of the wallet: the role the contract reports
\* replaces the stored one
login(walletAddress) ==
    IF /\ users[walletAddress] # NoUser
       /\ getUserRole(walletAddress) # "null"
       /\ getUserRole(walletAddress) # users[walletAddress].role
    THEN /\ users' = [users EXCEPT ![walletAddress].role = getUserRole(walletAddress)]
         /\ UNCHANGED <<chainVars, productionRequests, transactions, handlers>>
    ELSE UNCHANGED vars

\* ------------------------------------------------------------ admin routes
roleHierarchy(role) ==
    CASE role = "main_admin" -> 4
      [] role = "country_admin" -> 3
      [] role = "state_admin" -> 2
      [] role = "city_admin" -> 1
      [] OTHER -> 0

\* the middleware requireAdmin(requiredRole) for the bearer of caller's token:
\* 403, or 200 for next()
requireAdmin(requiredRole, caller) ==
    IF users[caller] = NoUser \/ ~users[caller].isApproved THEN 403
    ELSE IF roleHierarchy(users[caller].role) < roleHierarchy(requiredRole) THEN 403
    ELSE 200

\* the status an appointment route answers: the middleware, the existing-user
\* check, then the wallet's transaction (500 when it fails, the record created
\* before it deleted again)
appointStatus(requiredRole, caller, adminAddress, chainErr) ==
    IF requireAdmin(requiredRole, caller) # 200 THEN 403
    ELSE IF users[adminAddress] # NoUser THEN 400
    ELSE IF chainErr # "ok" THEN 500
    ELSE 200

AdminUser(role, cityId) == [role |-> role, isApproved |-> TRUE, cityId |-> cityId]

postAppointCountryAdminStatus(caller, adminAddress) ==
    appointStatus("main_admin", caller, adminAddress,
                  appointCountryAdminErr(Wallet, adminAddress))

\* POST /appoint-country-admin
postAppointCountryAdmin(caller, adminAddress, countryId) ==
    IF postAppointCountryAdminStatus(caller, adminAddress) = 200
    THEN /\ users' = [users EXCEPT ![adminAddress] = AdminUser("country_admin", 0)]
         /\ appointCountryAdmin(Wallet, adminAddress, countryId)
         /\ transactions' = transactions \cup {RoleGrantDoc(adminAddress, "country_admin")}
         /\ UNCHANGED <<productionRequests, handlers>>
    ELSE UNCHANGED vars

postAppointStateAdminStatus(caller, adminAddress) ==
    appointStatus("country_admin", caller, adminAddress,
                  appointStateAdminErr(Wallet, adminAddress))

\* POST /appoint-state-admin
postAppointStateAdmin(caller, adminAddress, stateId) ==
    IF postAppointStateAdminStatus(caller, adminAddress) = 200
    THEN /\ users' = [users EXCEPT ![adminAddress] = AdminUser("state_admin", 0)]
         /\ appointStateAdmin(Wallet, adminAddress, stateId)
         /\ transactions' = transactions \cup {RoleGrantDoc(adminAddress, "state_admin")}
         /\ UNCHANGED <<productionRequests, handlers>>
    ELSE UNCHANGED vars

postAppointCityAdminStatus(caller, adminAddress) ==
    appointStatus("state_admin", caller, adminAddress,
                  appointCityAdminErr(Wallet, adminAddress))

\* POST /appoint-city-admin
postAppointCityAdmin(caller, adminAddress, cityId) ==
    IF postAppointCityAdminStatus(caller, adminAddress) = 200
    THEN /\ users' = [users EXCEPT ![adminAddress] = AdminUser("city_admin", cityId)]
         /\ appointCityAdmin(Wallet, adminAddress, cityId)
         /\ transactions' = transactions \cup {RoleGrantDoc(adminAddress, "city_admin")}
         /\ UNCHANGED <<productionRequests, handlers>>
    ELSE UNCHANGED vars

\* the status /approve-producer answers
postApproveProducerStatus(caller, producerAddress) ==
    IF requireAdmin("city_admin", caller) # 200 THEN 403
    ELSE IF users[producerAddress] = NoUser \/ users[producerAddress].role # "producer"
         THEN 404
    ELSE IF users[producerAddress].isApproved THEN 400
    ELSE IF registerProducerErr(Wallet, producerAddress) # "ok" THEN 500
    ELSE 200

\* POST /approve-producer
postApproveProducer(caller, producerAddress) ==
    IF postApproveProducerStatus(caller, producerAddress) = 200
    THEN /\ users' = [users EXCEPT ![producerAddress].isApproved = TRUE]
         /\ registerProducer(Wallet, producerAddress)
         /\ transactions' = transactions \cup {RoleGrantDoc(producerAddress, "producer")}
         /\ UNCHANGED <<productionRequests, handlers>>
    ELSE UNCHANGED vars

\* ------------------------------------------------------- production routes
\* POST /submit-request by an approved producer: a pending request under the
\* digest of its data
submitRequest(caller, amount, digest) ==
    IF /\ users[caller] # NoUser
       /\ users[caller].role = "producer" /\ users[caller].isApproved
       /\ amount >= 1 /\ amount <= 1000
       /\ productionRequests[digest] = NoRequest
    THEN /\ productionRequests' =
               [productionRequests EXCEPT ![digest] =
                  [status |-> "pending", producerAddress |-> caller, amount |-> amount,
                   tokenIds |-> <<>>]]
         /\ UNCHANGED <<chainVars, users, transactions, handlers>>
    ELSE UNCHANGED vars

\* POST /certify up to its second await (lines 134-163): requireAuth, the
\* city_admin check, findById and the pending check on the document read
certifyFind(c, caller, requestId, action) ==
    /\ handlers[c] = Idle
    /\ users[caller] # NoUser
    /\ handlers' = [handlers EXCEPT ![c] =
                      IF /\ users[caller].role = "city_admin"
                         /\ productionRequests[requestId] # NoRequest
                         /\ productionRequests[requestId].status = "pending"
                      THEN [pc |-> "certifyProducer", requestId |-> requestId,
                            action |-> action, cityId |-> users[caller].cityId,
                            producerAddress |-> productionRequests[requestId].producerAddress]
                      ELSE Idle]
    /\ UNCHANGED <<chainVars, users, productionRequests, transactions>>

\* lines 166-169: the producer's record and the jurisdiction check
certifyProducer(c) ==
    /\ handlers[c].pc = "certifyProducer"
    /\ handlers' = [handlers EXCEPT ![c] =
                      IF /\ users[handlers[c].producerAddress] # NoUser
                         /\ users[handlers[c].producerAddress].cityId = handlers[c].cityId
                      THEN [@ EXCEPT !.pc = "certifySave"]
                      ELSE Idle]
    /\ UNCHANGED <<chainVars, users, productionRequests, transactions>>

\* lines 171-204: the status is set on the document read and saved
certifySave(c) ==
    /\ handlers[c].pc = "certifySave"
    /\ productionRequests' =
          [productionRequests EXCEPT ![handlers[c].requestId].status =
             IF handlers[c].action = "reject" THEN "rejected" ELSE "approved"]
    /\ handlers' = [handlers EXCEPT ![c] = Idle]
    /\ UNCHANGED <<chainVars, users, transactions>>

\* POST /mint up to the service call (lines 217-253): requireAuth, findById,
\* the approved check and the producer check
mintFind(c, caller, requestId, certifierSignature) ==
    /\ handlers[c] = Idle
    /\ users[caller] # NoUser
    /\ handlers' = [handlers EXCEPT ![c] =
                      IF /\ productionRequests[requestId] # NoRequest
                         /\ productionRequests[requestId].status = "approved"
                         /\ productionRequests[requestId].producerAddress = caller
                      THEN [pc |-> "verify",
                            producerAddress |-> productionRequests[requestId].producerAddress,
                            amount |-> productionRequests[requestId].amount,
                            certificationHash |-> requestId,
                            signature |-> certifierSignature, certifier |-> Zero,
                            fromTokenId |-> 0]
                      ELSE Idle]
    /\ UNCHANGED <<chainVars, users, productionRequests, transactions>>

\* ------------------------------------------------- backend specifications
\* the signatures presented to the service: of the city admin E over the
\* payload of either encoding, and bytes that are no signature
ServiceSignatures(to, amount, h) ==
    {Sign("E", to, amount, h), SignEncoded("E", to, amount, h), Malformed}

\* SpecService: BlockchainService.mintWithCertification called for the
\* producer P, two calls at a time, next to a mint sent to the contract
\* directly.  E holds CITY_ADMIN_ROLE; the main admin can grant it as well to
\* the address the other encoding's digest recovers.
NextService ==
    \/ \E account \in {"E", Stranger} :
          grantRole("A", CITY_ADMIN_ROLE, account) /\ UNCHANGED backendVars
    \/ registerProducer("E", "P") /\ UNCHANGED backendVars
    \/ \E timestamp \in Times :
          /\ Fits(1)
          /\ mintWithCertification("P", 1, "h2", Sign("E", "P", 1, "h2"), timestamp)
          /\ UNCHANGED backendVars
    \/ \E c \in Call, h \in Hash \cup HexDigest :
          \E sig \in ServiceSignatures("P", 1, h) : serviceMint(c, "P", 1, h, sig)
    \/ \E c \in Call : serviceVerify(c)
    \/ \E c \in Call : serviceIsUsed(c)
    \/ \E c \in Call : serviceTotalSupply(c)
    \/ \E c \in Call, timestamp \in Times :
          handlers[c].pc = "send" /\ Fits(handlers[c].amount) /\ serviceSend(c, timestamp)
    \/ \E c \in Call : serviceUpdate(c)
    \/ \E c \in Call : serviceLog(c)

SpecService == Init /\ [][NextService]_vars

\* SpecProduction: one production request of P, certified by the city admin E
\* (two /certify requests at a time) and minted through /mint.  E and P register
\* and take their roles from the contract at login.
NextProduction ==
    \/ grantRole("A", CITY_ADMIN_ROLE, "E") /\ UNCHANGED backendVars
    \/ registerProducer("E", "P") /\ UNCHANGED backendVars
    \/ \E walletAddress \in {"E", "P"} : register(walletAddress, "buyer")
    \/ \E walletAddress \in {"E", "P"} : login(walletAddress)
    \/ \E digest \in HexDigest : submitRequest("P", 1, digest)
    \/ \E c \in Call, requestId \in HexDigest, action \in {"approve", "reject"} :
          certifyFind(c, "E", requestId, action)
    \/ \E c \in Call : certifyProducer(c)
    \/ \E c \in Call : certifySave(c)
    \/ \E c \in Call, caller \in {"E", "P"}, requestId \in HexDigest :
          \E sig \in ServiceSignatures("P", 1, requestId) :
             mintFind(c, caller, requestId, sig)
    \/ \E c \in Call : serviceVerify(c)

SpecProduction == Init /\ [][NextProduction]_vars

\* SpecAdminApi: the admin routes, one request at a time, called by every
\* account.  A registers and logs in as the main admin; the wallet's account
\* can appoint itself down the chain.
NextAdminApi ==
    \/ register("A", "buyer")
    \/ \E role \in {"buyer", "producer"} : register("P", role)
    \/ login("A")
    \/ \E id \in JurisdictionId :
          \/ appointCountryAdmin("A", "A", id) /\ UNCHANGED backendVars
          \/ appointStateAdmin("A", "A", id) /\ UNCHANGED backendVars
          \/ appointCityAdmin("A", "A", id) /\ UNCHANGED backendVars
    \/ \E caller \in Account, adminAddress \in {"E", "K"}, id \in JurisdictionId :
          \/ postAppointCountryAdmin(caller, adminAddress, id)
          \/ postAppointStateAdmin(caller, adminAddress, id)
          \/ postAppointCityAdmin(caller, adminAddress, id)
    \/ \E caller \in Account : postApproveProducer(caller, "P")

SpecAdminApi == Init /\ [][NextAdminApi]_vars

\* ================================================================== claims
\* the state the running transaction started from (the last committed state)
Committed == IF frame.active THEN frame.saved ELSE Snapshot

Issued(h) == \E e \in CreditsIssued : e.certificationHash = h

exists(tokenId) == ownerOf(tokenId) # Zero

\* C1, as stated: once a mint with hash h has succeeded, every later
\* mintWithCertification with h fails with HashReused, whatever the recipient,
\* the amount or the signature.
C1_ReuseAlwaysHashReused ==
    \A h \in Hash : Issued(h) =>
        \A to \in Address, amount \in Amounts, sig \in Signatures :
            mintWithCertificationErr(to, amount, h, sig) = "HashReused"

\* C1, amended: at most one mint per hash ever succeeds (one CreditsIssued
\* event per hash); once one has, every mintWithCertification with that hash
\* fails, and it fails with HashReused when the contract is not paused and the
\* recipient and amount pass the earlier requires.
C1_HashMintsOnce ==
    \A h \in Hash :
        /\ Cardinality({e \in CreditsIssued : e.certificationHash = h}) <= 1
        /\ Issued(h) =>
              \A to \in Address, amount \in Amounts, sig \in Signatures :
                  LET err == mintWithCertificationErr(to, amount, h, sig)
                  IN  /\ err # "ok"
                      /\ (~paused /\ to # Zero /\ amountOk(amount) /\ to \in isProducer)
                            => err = "HashReused"

\* a batch was minted under h1 and a second, correctly signed call with h1 is
\* refused as a reuse
C1_Witness ==
    /\ Issued("h1") /\ ~frame.active
    /\ hasRole(CITY_ADMIN_ROLE, "E")
    /\ mintWithCertificationErr("P", 1, "h1", Sign("E", "P", 1, "h1")) = "HashReused"

\* C2: the hash is consumed before, and atomically with, the creation of the
\* batch's credits, and the consumed set only grows: every credit whose record
\* is written carries a consumed hash; while a batch is being created its hash
\* is already consumed; between transactions every existing credit has its
\* record; and from one committed state to the next no consumed hash is lost.
C2_Consumed ==
    /\ \A t \in TokenId :
          (exists(t) /\ t < nextTokenId) =>
              tokenCertifications[t].certificationHash \in certificationHashUsed
    /\ frame.active => frame.certificationHash \in certificationHashUsed
    /\ ~frame.active => \A t \in TokenId : exists(t) => t < nextTokenId

SignedFor(sig, to, amount, h) ==
    sig.wellFormed /\ sig.to = to /\ sig.amount = amount /\ sig.certificationHash = h

C7_SignatureBound ==
    \A to \in Address, amount \in Amounts, h \in Hash, sig \in Signatures :
        mintWithCertificationErr(to, amount, h, sig) = "ok"
        => SignedFor(sig, to, amount, h) /\ hasRole(CITY_ADMIN_ROLE, sig.signer)

\* E's signature over (P, 1, h1) is accepted for that triple and refused for
\* another recipient, another amount and another hash
C7_Witness ==
    /\ {"P", "K"} \subseteq isProducer /\ certificationHashUsed = {}
    /\ mintWithCertificationErr("P", 1, "h1", Sign("E", "P", 1, "h1")) = "ok"
    /\ mintWithCertificationErr("K", 1, "h1", Sign("E", "P", 1, "h1")) # "ok"
    /\ mintWithCertificationErr("P", 2, "h1", Sign("E", "P", 1, "h1")) # "ok"
    /\ mintWithCertificationErr("P", 1, "h2", Sign("E", "P", 1, "h1")) # "ok"

\* C6, as stated: the step that completes a mint (it emits CreditsIssued) has
\* created exactly the credits N+1..N+amount, N being the high-water mark when
\* the transaction began; each is owned by the recipient and carries the
\* batch's certification record; no other credit was created.
C6_BatchCreated(e) ==
    LET N == Committed.nextTokenId - 1
    IN  /\ e.fromId = N + 1 /\ e.toId = N + e.amount
        /\ nextTokenId' = e.toId + 1
        /\ \A t \in TokenId :
              IF t \in e.fromId..e.toId
              THEN /\ Committed.owners[t] = Zero
                   /\ tokenCertifications'[t].producer = e.to
                   /\ tokenCertifications'[t].certificationHash = e.certificationHash
                   /\ tokenCertifications'[t].certifier
                         = tokenCertifications'[e.fromId].certifier
                   /\ tokenCertifications'[t].certifier \in Account
              ELSE (Committed.owners[t] = Zero) = (owners'[t] = Zero)

C6_BatchOwnedByRecipient ==
    [][\A e \in CreditsIssued' \ CreditsIssued :
          /\ C6_BatchCreated(e)
          /\ \A t \in e.fromId..e.toId : owners'[t] = e.to]_vars

\* C10, as stated: a mint to an account that does not hold PRODUCER_ROLE
\* fails; when the call is not paused and the amount is valid it fails with
\* UnknownRecipient (ZeroIdentity for the zero address).
C10_MintOnlyToProducers ==
    \A to \in Address, amount \in Amounts, h \in Hash, sig \in Signatures :
        ~hasRole(PRODUCER_ROLE, to) =>
            LET err == mintWithCertificationErr(to, amount, h, sig)
            IN  /\ err # "ok"
                /\ (~paused /\ amountOk(amount)) =>
                      err = IF to = Zero THEN "ZeroIdentity" ELSE "UnknownRecipient"

\* the events of the appointment protocol that name account a for role r
Appointed(r, a) ==
    \E e \in log :
        /\ e.who = a
        /\ e.ev = CASE r = COUNTRY_ADMIN_ROLE -> "CountryAdminAppointed"
                    [] r = STATE_ADMIN_ROLE -> "StateAdminAppointed"
                    [] r = CITY_ADMIN_ROLE -> "CityAdminAppointed"
                    [] r = PRODUCER_ROLE -> "ProducerRegistered"
                    [] r = AUDITOR_ROLE -> "AuditorRegistered"
                    [] r = BUYER_ROLE -> "BuyerRegistered"
                    [] OTHER -> "none"

\* the role each appointment event required of its sender
RequiredFor(ev) ==
    CASE ev = "CountryAdminAppointed" -> MAIN_ADMIN_ROLE
      [] ev = "StateAdminAppointed" -> COUNTRY_ADMIN_ROLE
      [] ev = "CityAdminAppointed" -> STATE_ADMIN_ROLE
      [] ev = "ProducerRegistered" -> CITY_ADMIN_ROLE
      [] ev = "AuditorRegistered" -> MAIN_ADMIN_ROLE

\* C4: the appointment chain is strict.  A sender without MAIN_ADMIN_ROLE
\* cannot appoint a country admin, without COUNTRY_ADMIN_ROLE a state admin,
\* without STATE_ADMIN_ROLE a city admin, without CITY_ADMIN_ROLE a producer:
\* the call fails with InsufficientCapability whatever other role the sender
\* holds; and every appointment that is recorded (its event carries the
\* sender) was made by a holder of exactly the required role.
C4_Refused ==
    \A sender \in Account, admin \in Address :
        /\ ~hasRole(MAIN_ADMIN_ROLE, sender)
              => appointCountryAdminErr(sender, admin) = "InsufficientCapability"
        /\ ~hasRole(COUNTRY_ADMIN_ROLE, sender)
              => appointStateAdminErr(sender, admin) = "InsufficientCapability"
        /\ ~hasRole(STATE_ADMIN_ROLE, sender)
              => appointCityAdminErr(sender, admin) = "InsufficientCapability"
        /\ ~hasRole(CITY_ADMIN_ROLE, sender)
              => registerProducerErr(sender, admin) = "InsufficientCapability"

C4_StrictChain ==
    /\ []C4_Refused
    /\ [][\A e \in log' \ log :
             e.ev # "BuyerRegistered" => hasRole(RequiredFor(e.ev), e.by)]_vars

\* the main admin A holds no other role, E was appointed down the chain, and
\* A's attempts at the lower levels are refused
C4_Witness ==
    /\ hasRole(MAIN_ADMIN_ROLE, "A") /\ ~hasRole(COUNTRY_ADMIN_ROLE, "A")
    /\ ~hasRole(STATE_ADMIN_ROLE, "A") /\ ~hasRole(CITY_ADMIN_ROLE, "A")
    /\ Appointed(COUNTRY_ADMIN_ROLE, "E") /\ Appointed(STATE_ADMIN_ROLE, "E")
    /\ Appointed(CITY_ADMIN_ROLE, "E") /\ Appointed(PRODUCER_ROLE, "P")
    /\ appointStateAdminErr("A", "A") = "InsufficientCapability"
    /\ appointCityAdminErr("A", "A") = "InsufficientCapability"
    /\ registerProducerErr("A", "E") = "InsufficientCapability"

\* C8, as stated: every holder of country_admin, state_admin, city_admin,
\* producer, auditor or buyer was named by a successful call of the
\* appointment protocol for that role.
C8_RolesOnlyByAppointment ==
    \A r \in Role \ {DEFAULT_ADMIN_ROLE, MAIN_ADMIN_ROLE}, a \in Address :
        hasRole(r, a) => Appointed(r, a)

\* C9, as stated: once hasRole(r, a) is true it is true in every later state.
C9_RolesNeverRevoked ==
    [][\A r \in Role, a \in Address : hasRole(r, a) => hasRole(r, a)']_vars

\* the step that ends a receiver callback by reverting the transaction
Reverted == frame.active /\ ~frame'.active /\ nextTokenId' = frame.saved.nextTokenId

C3_Frozen ==
    \A t \in isRetired :
        /\ ownerOf(t) = retiredBy[t] /\ ownerOf(t) # Zero
        /\ \A sender \in Account, from \in Account, to \in Address :
              LET err == transferFromErr(sender, from, to, t)
              IN  /\ err # "ok"
                  /\ (~paused /\ to # Zero) => err = "RetiredCreditTransfer"

AmountSignatures ==
    Signatures \cup {Sign("E", to, a, h) : to \in {"P", "K"}, a \in Amounts, h \in Hash}

\* the credits whose certification record carries hash h
CreditsOf(h) == {t \in TokenId : tokenCertifications[t].certificationHash = h}

\* C11, as stated: a mintWithCertification with amount = 0 or amount > 1000
\* fails with InvalidAmount, whatever the rest of the call.
C11_AlwaysInvalidAmount ==
    \A to \in Address, amount \in Amounts, h \in Hash, sig \in AmountSignatures :
        (amount < 1 \/ amount > MintCeiling)
        => mintWithCertificationErr(to, amount, h, sig) = "InvalidAmount"

\* C11, amended: a mint with amount = 0 or amount > 1000 fails (it mints
\* nothing), with InvalidAmount when the contract is not paused and the
\* recipient is not the zero address; no amount in 1..1000 is refused with
\* InvalidAmount; every batch issued has between 1 and 1000 credits, and the
\* credits recorded under one hash never outnumber the amount of its batch.
C11_AmountBounds ==
    /\ \A to \in Address, amount \in Amounts, h \in Hash, sig \in AmountSignatures :
          LET err == mintWithCertificationErr(to, amount, h, sig)
          IN  /\ (amount < 1 \/ amount > MintCeiling) =>
                    /\ err # "ok"
                    /\ (~paused /\ to # Zero) => err = "InvalidAmount"
              /\ (amount >= 1 /\ amount <= MintCeiling) => err # "InvalidAmount"
    /\ \A e \in CreditsIssued :
          /\ e.amount >= 1 /\ e.amount <= MintCeiling
          /\ Cardinality(CreditsOf(e.certificationHash)) = e.amount
    /\ frame.active =>
          /\ frame.amount >= 1 /\ frame.amount <= MintCeiling
          /\ Cardinality(CreditsOf(frame.certificationHash)) = frame.i
    /\ \A h \in Hash : Cardinality(CreditsOf(h)) <= MintCeiling

\* a batch of two was issued; for the producer P and an unused hash, E's
\* signatures over 0 and over 1001 credits are refused for the amount, and its
\* signature over 1000 credits passes every check
C11_Witness ==
    /\ \E e \in CreditsIssued : e.amount = 2
    /\ ~paused /\ ~frame.active /\ "P" \in isProducer /\ "h1" \notin certificationHashUsed
    /\ mintWithCertificationErr("P", 0, "h1", Sign("E", "P", 0, "h1")) = "InvalidAmount"
    /\ mintWithCertificationErr("P", MintCeiling + 1, "h1",
                                Sign("E", "P", MintCeiling + 1, "h1")) = "InvalidAmount"
    /\ mintWithCertificationErr("P", MintCeiling, "h1",
                                Sign("E", "P", MintCeiling, "h1")) = "ok"

\* C12: retire(tokenId) succeeds only for the current owner of an existing
\* credit that is not retired.  Any other caller (an approved account, an
\* operator, anyone for an id that does not exist) fails with NotOwner; the
\* owner of a retired credit fails with AlreadyRetired; a successful retire
\* records the owner at that moment and the block's timestamp, and the three
\* fields of a retired credit are never written again.
C12_Checks ==
    /\ \A sender \in Account, t \in 1..(MaxTokenId + 1) :
          LET err == retireErr(sender, t)
          IN  /\ ownerOf(t) # sender => err = "NotOwner"
              /\ (ownerOf(t) = sender /\ t \in isRetired) => err = "AlreadyRetired"
              /\ err = "ok" => (exists(t) /\ ownerOf(t) = sender /\ t \notin isRetired)
    /\ \A t \in TokenId :
          IF t \in isRetired
          THEN retiredBy[t] = ownerOf(t) /\ retiredBy[t] # Zero /\ retiredAt[t] > 0
          ELSE retiredBy[t] = Zero /\ retiredAt[t] = 0

C12_RetireOnce ==
    /\ []C12_Checks
    /\ [][\A t \in TokenId :
             /\ (t \in isRetired /\ ~Reverted)
                   => /\ t \in isRetired'
                      /\ retiredBy'[t] = retiredBy[t] /\ retiredAt'[t] = retiredAt[t]
             /\ (t \notin isRetired /\ t \in isRetired')
                   => retiredBy'[t] = owners[t] /\ owners[t] # Zero]_vars

\* credit 1 is retired while E is approved for it; credit 2 is not retired
\* and its owner has the operator A: E and A are refused as non-owners, the
\* owner of credit 1 is refused a second retire, the owner of credit 2 may retire
C12_Witness ==
    /\ 1 \in isRetired /\ 2 \notin isRetired /\ exists(2)
    /\ tokenApprovals[1] = "E" /\ <<ownerOf(2), "A">> \in operatorApprovals
    /\ retireErr("E", 1) = "NotOwner" /\ retireErr("A", 2) = "NotOwner"
    /\ retireErr(ownerOf(1), 1) = "AlreadyRetired"
    /\ retireErr(ownerOf(2), 2) = "ok"
    /\ retireErr("A", MaxTokenId + 1) = "NotOwner"

C13_Blocked ==
    /\ paused =>
          /\ \A to \in Address, amount \in Amounts, h \in Hash, sig \in Signatures :
                mintWithCertificationErr(to, amount, h, sig) = "Paused"
          /\ \A sender \in Account, from \in Account, to \in Address, t \in TokenId :
                LET err == transferFromErr(sender, from, to, t)
                IN  err # "ok" /\ (to # Zero => err = "Paused")
    /\ ~paused =>
          /\ \A to \in Address, amount \in Amounts, h \in Hash, sig \in Signatures :
                mintWithCertificationErr(to, amount, h, sig) # "Paused"
          /\ \A sender \in Account, from \in Account, to \in Address, t \in TokenId :
                transferFromErr(sender, from, to, t) # "Paused"

C14_RetireBlockedWhilePaused ==
    [][paused => isRetired' = isRetired]_vars

\* C15, as stated: while paused every appointment, registration, mint,
\* transfer and retire aborts and leaves the state unchanged: no step taken
\* while paused changes a role flag, a jurisdiction id, the appointment log, an
\* owner, a certification, the credit count or a retirement.
C15_PausedBlocksEveryEntryPoint ==
    [][paused => UNCHANGED <<rolesOnly, mintVars, retireVars, owners>>]_vars

\* C16: registerAuditor, pause and unpause are reserved to the holders of
\* MAIN_ADMIN_ROLE.  Any other sender fails with InsufficientCapability,
\* whatever the state of the breaker and whatever account it names; the
\* auditor set changes only by an AuditorRegistered event whose sender holds
\* the role, and the paused flag only when a holder of the role can flip it.
C16_Refused ==
    \A sender \in Account :
        ~hasRole(MAIN_ADMIN_ROLE, sender) =>
            /\ pauseErr(sender) = "InsufficientCapability"
            /\ unpauseErr(sender) = "InsufficientCapability"
            /\ \A auditor \in Address :
                  registerAuditorErr(sender, auditor) = "InsufficientCapability"

C16_MainAdminOnly ==
    /\ []C16_Refused
    /\ [][/\ isAuditor' # isAuditor =>
                \E e \in log' \ log :
                    /\ e.ev = "AuditorRegistered" /\ hasRole(MAIN_ADMIN_ROLE, e.by)
                    /\ isAuditor' = isAuditor \cup {e.who}
          /\ paused' # paused =>
                \E sender \in Account :
                    /\ hasRole(MAIN_ADMIN_ROLE, sender)
                    /\ IF paused THEN unpauseErr(sender) = "ok" ELSE pauseErr(sender) = "ok"]_vars

\* the main admin has registered the auditor P and paused; the country admin E
\* is refused all three actions
C16_Witness ==
    /\ paused /\ "P" \in isAuditor
    /\ hasRole(COUNTRY_ADMIN_ROLE, "E") /\ ~hasRole(MAIN_ADMIN_ROLE, "E")
    /\ pauseErr("E") = "InsufficientCapability"
    /\ unpauseErr("E") = "InsufficientCapability"
    /\ registerAuditorErr("E", "K") = "InsufficientCapability"
    /\ unpauseErr("A") = "ok" /\ registerAuditorErr("A", "K") = "ok"

\* the checks of one grant path on its target, for a sender that passes the
\* path's appointer check
GrantPathChecks(err, role, target) ==
    /\ target = Zero => err = "ZeroIdentity"
    /\ (target # Zero /\ hasRole(role, target)) => err = "AlreadyHeld"

\* C17, as stated: on every grant path a sender holding the appointer role is
\* refused with InvalidAccount (ZeroIdentity) for the zero address and with
\* AlreadyHeld for a target that already holds the role granted; registerBuyer
\* refuses a sender that already holds the buyer role.
C17_AlreadyHeldOrInvalid ==
    \A sender \in Account, target \in Address :
        /\ hasRole(MAIN_ADMIN_ROLE, sender) =>
              /\ GrantPathChecks(appointCountryAdminErr(sender, target),
                                 COUNTRY_ADMIN_ROLE, target)
              /\ GrantPathChecks(registerAuditorErr(sender, target), AUDITOR_ROLE, target)
        /\ hasRole(COUNTRY_ADMIN_ROLE, sender) =>
              GrantPathChecks(appointStateAdminErr(sender, target), STATE_ADMIN_ROLE, target)
        /\ hasRole(STATE_ADMIN_ROLE, sender) =>
              GrantPathChecks(appointCityAdminErr(sender, target), CITY_ADMIN_ROLE, target)
        /\ hasRole(CITY_ADMIN_ROLE, sender) =>
              GrantPathChecks(registerProducerErr(sender, target), PRODUCER_ROLE, target)
        /\ hasRole(BUYER_ROLE, sender) => registerBuyerErr(sender) = "AlreadyHeld"

AdminRole == {MAIN_ADMIN_ROLE, COUNTRY_ADMIN_ROLE, STATE_ADMIN_ROLE, CITY_ADMIN_ROLE}

\* C18, as stated: no account holds two of main_admin, country_admin,
\* state_admin and city_admin at the same time.
C18_OneAdminLevel ==
    \A a \in Account : Cardinality({r \in AdminRole : hasRole(r, a)}) <= 1

\* the appointment events of one level that name account a
AppointedAs(ev, a) == {e \in log : e.ev = ev /\ e.who = a}

\* the id recorded for a at one level is the id of the one appointment of a at
\* that level; an account never appointed there has none (the default, 0)
JurisdictionFixed(ev, flag, ids, a) ==
    /\ Cardinality(AppointedAs(ev, a)) <= 1
    /\ a \in flag <=> AppointedAs(ev, a) # {}
    /\ \A e \in AppointedAs(ev, a) : ids[a] = e.n
    /\ AppointedAs(ev, a) = {} => ids[a] = 0

\* C19: the jurisdiction id of an admin is the one given at its appointment,
\* in every later state and whatever calls follow (a revoked or renounced
\* role included); an appointment writes the id it was called with; an
\* account never appointed at a level has no id at that level.
C19_Recorded ==
    \A a \in Address :
        /\ JurisdictionFixed("CountryAdminAppointed", isCountryAdmin, countryAdminCountryId, a)
        /\ JurisdictionFixed("StateAdminAppointed", isStateAdmin, stateAdminStateId, a)
        /\ JurisdictionFixed("CityAdminAppointed", isCityAdmin, cityAdminCityId, a)

C19_JurisdictionFixed ==
    /\ []C19_Recorded
    /\ [][\A a \in Address :
             /\ a \in isCountryAdmin => countryAdminCountryId'[a] = countryAdminCountryId[a]
             /\ a \in isStateAdmin => stateAdminStateId'[a] = stateAdminStateId[a]
             /\ a \in isCityAdmin => cityAdminCityId'[a] = cityAdminCityId[a]]_vars

\* E was appointed country admin for 7 and state admin for 8 and has lost the
\* country role since; a second appointment with another id is refused, and A,
\* never appointed, has no id
C19_Witness ==
    /\ countryAdminCountryId["E"] = 7 /\ stateAdminStateId["E"] = 8
    /\ ~hasRole(COUNTRY_ADMIN_ROLE, "E")
    /\ appointCountryAdminErr("A", "E") = "AlreadyHeld"
    /\ "A" \notin isCountryAdmin /\ countryAdminCountryId["A"] = 0

\* C20, as stated: in every reachable state every existing credit has a
\* certification record with a non-zero producer and a non-zero certifier
\* under a consumed hash.
C20_EveryCreditCertified ==
    \A t \in TokenId :
        exists(t) =>
            /\ tokenCertifications[t].producer # Zero
            /\ tokenCertifications[t].certifier # Zero
            /\ tokenCertifications[t].certificationHash \in certificationHashUsed

C22_NoInterleaving ==
    [][(frame.active /\ frame' = frame)
          => UNCHANGED <<roleVars, mintVars, retireVars, ercVars, paused>>]_vars

\* C23, as stated: in every reachable state the existing credits are exactly
\* the ids 1..K with next identifier = K + 1, and a retired credit exists and
\* is owned.
C23_CreditsContiguous ==
    /\ \A t \in TokenId : exists(t) <=> t < nextTokenId
    /\ \A t \in isRetired : exists(t)

\* C24, as stated: tokensOfOwner(owner) lists exactly the ids the owner holds,
\* each once, in ascending order.
C24_TokensOfOwnerAscending ==
    \A a \in Account :
        LET list == tokensOfOwner(a)
        IN  /\ {list[i] : i \in 1..Len(list)} = {t \in TokenId : owners[t] = a}
            /\ \A i, j \in 1..Len(list) : i < j => list[i] < list[j]

\* C25, as stated: in every reachable state exactly one account holds
\* MAIN_ADMIN_ROLE, the address given to the constructor.
C25_MainAdminFixed ==
    roles[MAIN_ADMIN_ROLE] = {MainAdmin}

\* C30, as stated: the flags and the role store agree on every account, for
\* country admin, state admin, city admin, producer, buyer and auditor.
C30_RoleStoresAgree ==
    \A a \in Address :
        /\ a \in isCountryAdmin <=> hasRole(COUNTRY_ADMIN_ROLE, a)
        /\ a \in isStateAdmin <=> hasRole(STATE_ADMIN_ROLE, a)
        /\ a \in isCityAdmin <=> hasRole(CITY_ADMIN_ROLE, a)
        /\ a \in isProducer <=> hasRole(PRODUCER_ROLE, a)
        /\ a \in isBuyer <=> hasRole(BUYER_ROLE, a)
        /\ a \in isAuditor <=> hasRole(AUDITOR_ROLE, a)

\* C26: the tokenIds a successful mintWithCertification of the service returns,
\* stores on the production request and logs are exactly the ids of the
\* credits its transaction minted, also when another mint is committed
\* between the read of totalSupply and the transaction.
C26_TokenIdsAreTheMinted ==
    /\ \A c \in Call :
          handlers[c].pc \in {"update", "log"} =>
             \E e \in CreditsIssued :
                /\ e.certificationHash = handlers[c].certificationHash
                /\ handlers[c].fromTokenId = e.fromId
    /\ \A t \in transactions :
          t.eventType = "mint" =>
             \E e \in CreditsIssued :
                /\ e.certificationHash = t.certificationHash
                /\ t.tokenIds = tokenIdsFrom(e.fromId, e.amount)
    /\ \A d \in HexDigest :
          productionRequests[d].status = "minted" =>
             \E e \in CreditsIssued :
                productionRequests[d].tokenIds = tokenIdsFrom(e.fromId, e.amount)

\* C27: the off-chain verifier and the contract agree: for every producer,
\* amount, hash and signature, verifyCertificationSignature answers isValid
\* with certifier c exactly when the contract recovers the same c from the
\* same inputs and c holds CITY_ADMIN_ROLE.
C27_VerifierAgrees ==
    \A h \in Hash, c \in Account \cup {Stranger} :
       \A sig \in ServiceSignatures("P", 1, h) :
          LET verification == verifyCertificationSignature("P", 1, h, sig)
          IN  (verification.isValid /\ verification.certifier = c)
                 <=> (certifierOf("P", 1, h, sig) = c /\ hasRole(CITY_ADMIN_ROLE, c))

\* C28: under every interleaving of certify and mint requests a production
\* request's status only goes pending -> approved, pending -> rejected and
\* approved -> minted; a rejected or minted request keeps its status.
StatusSteps ==
    {<<"none", "pending">>, <<"pending", "approved">>, <<"pending", "rejected">>,
     <<"approved", "minted">>}

C28_StatusMachine ==
    [][\A d \in HexDigest :
          productionRequests'[d].status # productionRequests[d].status =>
             <<productionRequests[d].status, productionRequests'[d].status>> \in StatusSteps]_vars

\* C29: every admin route answers 403 to a user whose role is not exactly the
\* one its description names (main_admin for /appoint-country-admin,
\* country_admin for /appoint-state-admin, state_admin for /appoint-city-admin,
\* city_admin for /approve-producer), and to a user who is not approved.
ApprovedAs(caller, role) ==
    users[caller] # NoUser /\ users[caller].isApproved /\ users[caller].role = role

C29_RoutesReserved ==
    \A caller \in Account, target \in Account :
       /\ ~ApprovedAs(caller, "main_admin")
             => postAppointCountryAdminStatus(caller, target) = 403
       /\ ~ApprovedAs(caller, "country_admin")
             => postAppointStateAdminStatus(caller, target) = 403
       /\ ~ApprovedAs(caller, "state_admin")
             => postAppointCityAdminStatus(caller, target) = 403
       /\ ~ApprovedAs(caller, "city_admin")
             => postApproveProducerStatus(caller, target) = 403

====
